---- MODULE Spec2Model ----
(***************************************************************************)
(* Model of src/src/instruction.rs: the token instruction codec            *)
(* (TokenInstruction::pack / unpack, the COption<Pubkey> sub-codec, the    *)
(* AuthorityType byte codec) and the instruction builders.                 *)
(*                                                                         *)
(* All functions of the file are pure.  The state machine below is the     *)
(* harness around them: a value is packed (or a byte buffer is received),  *)
(* the buffer may be cut, extended or damaged on the way, and is then      *)
(* unpacked; the helper codecs and the builders are called with arguments  *)
(* drawn from bounded sets and their results recorded.                     *)
(***************************************************************************)
EXTENDS Integers, Sequences, FiniteSets, TLC

(***************************************************************************)
(* Bounds of the model.                                                    *)
(***************************************************************************)
\* number of distinct account identifiers offered to the operations
NumKeys == 2
\* largest number of bytes appended behind a packed instruction
MaxTrail == 2
\* largest number of bytes following the tag in a received raw buffer
MaxRawBody == 3
\* largest number of signer identifiers handed to a builder
MaxSignerKeys == 2

(***************************************************************************)
(* Program constants.                                                      *)
(***************************************************************************)
MIN_SIGNERS == 1
MAX_SIGNERS == 1
\* size of a Pubkey in bytes (the 32 of unpack_pubkey / unpack_pubkey_option)
PUBKEY_BYTES == 32

Byte == 0..255

(***************************************************************************)
(* Results: Result<T, ProgramError>.                                       *)
(***************************************************************************)
Ok(v) == [ok |-> TRUE, val |-> v]
Err(e) == [ok |-> FALSE, err |-> e]
InvalidInstruction == "InvalidInstruction"
MissingRequiredSignature == "MissingRequiredSignature"
NotRun == Err("NotRun")

(***************************************************************************)
(* Byte sequences.                                                         *)
(***************************************************************************)
Fill(n, b) == [i \in 1..n |-> b]
Take(s, n) == SubSeq(s, 1, n)
Drop(s, n) == SubSeq(s, n + 1, Len(s))

\* Pubkey: 32 bytes.  Key(k) has a different byte at every position.
Key(k) == [i \in 1..PUBKEY_BYTES |-> (37 * k + i) % 256]
Pubkeys == {Key(k) : k \in 1..NumKeys}

\* COption<Pubkey>
CNone == [some |-> FALSE]
CSome(key) == [some |-> TRUE, key |-> key]
OptionalPubkeys == {CNone} \cup {CSome(k) : k \in Pubkeys}

(***************************************************************************)
(* u64.  A u64 is held as four 16-bit limbs, least significant first       *)
(* (its value is a[1] + 2^16 a[2] + 2^32 a[3] + 2^48 a[4]), so that the    *)
(* whole 64-bit range is covered with small integers.                      *)
(***************************************************************************)
Limb == 0..65535
U64(n) == <<n % 65536, n \div 65536, 0, 0>>
U64Max == <<65535, 65535, 65535, 65535>>
\* 0x0807060504030201: every byte of the encoding differs
U64Bytes == <<513, 1027, 1541, 2055>>
Amounts == {U64(0), U64(1), U64(65536 * 3 + 258), U64Bytes, U64Max}

\* mutant: the bytes of the amount in big-endian order
to_be_bytes(a) ==
    << a[4] \div 256, a[4] % 256, a[3] \div 256, a[3] % 256,
       a[2] \div 256, a[2] % 256, a[1] \div 256, a[1] % 256 >>

\* u64::to_le_bytes
to_le_bytes(a) ==
    << a[1] % 256, a[1] \div 256, a[2] % 256, a[2] \div 256,
       a[3] % 256, a[3] \div 256, a[4] % 256, a[4] \div 256 >>

\* u64::from_le_bytes on an 8-byte array
from_le_bytes(b) ==
    << b[1] + 256 * b[2], b[3] + 256 * b[4], b[5] + 256 * b[6], b[7] + 256 * b[8] >>

(***************************************************************************)
(* TokenInstruction: the variants the enum declares.                       *)
(***************************************************************************)
InitializeMint(decimals, mint_authority, freeze_authority) ==
    [kind |-> "InitializeMint", decimals |-> decimals,
     mint_authority |-> mint_authority, freeze_authority |-> freeze_authority]
InitializeAccount == [kind |-> "InitializeAccount"]
Transfer(amount) == [kind |-> "Transfer", amount |-> amount]
Approve(amount) == [kind |-> "Approve", amount |-> amount]
MintTo(amount) == [kind |-> "MintTo", amount |-> amount]
Burn(amount) == [kind |-> "Burn", amount |-> amount]
InitializeAccount2(owner) == [kind |-> "InitializeAccount2", owner |-> owner]

DecimalsValues == {0, 2, 255}

TokenInstruction ==
    {InitializeMint(d, a, f) : d \in DecimalsValues, a \in Pubkeys, f \in OptionalPubkeys}
    \cup {InitializeAccount}
    \cup {Transfer(a) : a \in Amounts} \cup {Approve(a) : a \in Amounts}
    \cup {MintTo(a) : a \in Amounts} \cup {Burn(a) : a \in Amounts}
    \cup {InitializeAccount2(o) : o \in Pubkeys}

(***************************************************************************)
(* The sub-codecs of TokenInstruction.                                     *)
(***************************************************************************)
\* unpack_pubkey: (Pubkey, rest) or InvalidInstruction
unpack_pubkey(input) ==
    IF Len(input) >= PUBKEY_BYTES
    THEN Ok([key |-> Take(input, PUBKEY_BYTES), rest |-> Drop(input, PUBKEY_BYTES)])
    ELSE Err(InvalidInstruction)

\* mutant: the length guard of the present arm is lost, split_at(32) panics
unpack_pubkey_option_short(input) ==
    IF input = <<>> THEN Err(InvalidInstruction)
    ELSE IF Head(input) = 0 THEN Ok([value |-> CNone, rest |-> Tail(input)])
    ELSE IF Head(input) = 1
    THEN IF Len(Tail(input)) >= PUBKEY_BYTES
         THEN Ok([value |-> CSome(Take(Tail(input), PUBKEY_BYTES)),
                  rest |-> Drop(Tail(input), PUBKEY_BYTES)])
         ELSE Err("Panic")
    ELSE Err(InvalidInstruction)

\* mutant: every discriminant but 0 counts as present
unpack_pubkey_option_nonzero(input) ==
    IF input = <<>> THEN Err(InvalidInstruction)
    ELSE IF Head(input) = 0 THEN Ok([value |-> CNone, rest |-> Tail(input)])
    ELSE IF Len(Tail(input)) >= PUBKEY_BYTES
    THEN Ok([value |-> CSome(Take(Tail(input), PUBKEY_BYTES)),
             rest |-> Drop(Tail(input), PUBKEY_BYTES)])
    ELSE Err(InvalidInstruction)

\* unpack_pubkey_option: (COption<Pubkey>, rest) or InvalidInstruction
unpack_pubkey_option(input) ==
    IF input = <<>> THEN Err(InvalidInstruction)
    ELSE IF Head(input) = 0 THEN Ok([value |-> CNone, rest |-> Tail(input)])
    ELSE IF Head(input) = 1 /\ Len(Tail(input)) >= PUBKEY_BYTES
    THEN Ok([value |-> CSome(Take(Tail(input), PUBKEY_BYTES)),
             rest |-> Drop(Tail(input), PUBKEY_BYTES)])
    ELSE Err(InvalidInstruction)

\* pack_pubkey_option: the buffer after the value was appended to it
pack_pubkey_option(value, buf) ==
    IF value.some THEN buf \o <<1>> \o value.key ELSE buf \o <<0>>

\* mutant: the amount must be the whole rest of the buffer
unpack_amount_exact(rest) ==
    IF Len(rest) = 8 THEN Ok(from_le_bytes(Take(rest, 8))) ELSE Err(InvalidInstruction)

\* the amount of tags 3, 4, 7, 8: rest.get(..8) as a little-endian u64
unpack_amount(rest) ==
    IF Len(rest) >= 8 THEN Ok(from_le_bytes(Take(rest, 8))) ELSE Err(InvalidInstruction)

(***************************************************************************)
(* TokenInstruction::unpack.                                               *)
(***************************************************************************)
unpack_InitializeMint(rest) ==
    IF rest = <<>> THEN Err(InvalidInstruction)
    ELSE LET decimals == Head(rest)
             ma == unpack_pubkey(Tail(rest))
         IN IF ~ma.ok THEN ma
            ELSE LET fa == unpack_pubkey_option(ma.val.rest)
                 IN IF ~fa.ok THEN fa
                    ELSE Ok(InitializeMint(decimals, ma.val.key, fa.val.value))

unpack_amount_variant(tag, rest) ==
    LET amount == unpack_amount(rest)
    IN IF ~amount.ok THEN amount
       ELSE CASE tag = 3 -> Ok(Transfer(amount.val))
              [] tag = 4 -> Ok(Approve(amount.val))
              [] tag = 7 -> Ok(MintTo(amount.val))
              [] tag = 8 -> Ok(Burn(amount.val))

unpack_InitializeAccount2(rest) ==
    LET owner == unpack_pubkey(rest)
    IN IF ~owner.ok THEN owner ELSE Ok(InitializeAccount2(owner.val.key))

\* the match on the tag
unpack_tag(tag, rest) ==
    CASE tag = 0 -> unpack_InitializeMint(rest)
      [] tag = 1 -> Ok(InitializeAccount)
      [] tag \in {3, 4, 7, 8} -> unpack_amount_variant(tag, rest)
      [] tag = 16 -> unpack_InitializeAccount2(rest)
      [] OTHER -> Err(InvalidInstruction)

\* mutant: only the low five bits of the tag are looked at
unpack_masked(input) ==
    IF input = <<>> THEN Err(InvalidInstruction)
    ELSE unpack_tag(Head(input) % 32, Tail(input))

unpack(input) ==
    IF input = <<>> THEN Err(InvalidInstruction)
    ELSE unpack_tag(Head(input), Tail(input))

(***************************************************************************)
(* TokenInstruction::pack.                                                 *)
(***************************************************************************)
pack(self) ==
    CASE self.kind = "InitializeMint" ->
            pack_pubkey_option(self.freeze_authority,
                               <<0, self.decimals>> \o self.mint_authority)
      [] self.kind = "InitializeAccount" -> <<1>>
      [] self.kind = "Transfer" -> <<3>> \o to_le_bytes(self.amount)
      [] self.kind = "Approve" -> <<4>> \o to_le_bytes(self.amount)
      [] self.kind = "MintTo" -> <<7>> \o to_le_bytes(self.amount)
      [] self.kind = "Burn" -> <<8>> \o to_le_bytes(self.amount)
      [] self.kind = "InitializeAccount2" -> <<16>> \o self.owner

(***************************************************************************)
(* AuthorityType and its byte codec.                                       *)
(***************************************************************************)
AuthorityType == {"MintTokens", "FreezeAccount", "AccountOwner", "CloseAccount"}

AuthorityType_into(self) ==
    CASE self = "MintTokens" -> 0
      [] self = "FreezeAccount" -> 1
      [] self = "AccountOwner" -> 2
      [] self = "CloseAccount" -> 3

\* mutant: the codes of FreezeAccount and AccountOwner are exchanged
AuthorityType_from_swapped(index) ==
    CASE index = 0 -> Ok("MintTokens")
      [] index = 1 -> Ok("AccountOwner")
      [] index = 2 -> Ok("FreezeAccount")
      [] index = 3 -> Ok("CloseAccount")
      [] OTHER -> Err(InvalidInstruction)

AuthorityType_from(index) ==
    CASE index = 0 -> Ok("MintTokens")
      [] index = 1 -> Ok("FreezeAccount")
      [] index = 2 -> Ok("AccountOwner")
      [] index = 3 -> Ok("CloseAccount")
      [] OTHER -> Err(InvalidInstruction)

(***************************************************************************)
(* Variants that the builders and test_instruction_packing construct but   *)
(* the enum does not declare; pack and unpack have no arm for them.        *)
(***************************************************************************)
InitializeMultisig(m) == [kind |-> "InitializeMultisig", m |-> m]
Revoke == [kind |-> "Revoke"]
SetAuthority(authority_type, new_authority) ==
    [kind |-> "SetAuthority", authority_type |-> authority_type,
     new_authority |-> new_authority]
CloseAccount == [kind |-> "CloseAccount"]
FreezeAccount == [kind |-> "FreezeAccount"]
ThawAccount == [kind |-> "ThawAccount"]
TransferChecked(amount, decimals) ==
    [kind |-> "TransferChecked", amount |-> amount, decimals |-> decimals]
ApproveChecked(amount, decimals) ==
    [kind |-> "ApproveChecked", amount |-> amount, decimals |-> decimals]
MintToChecked(amount, decimals) ==
    [kind |-> "MintToChecked", amount |-> amount, decimals |-> decimals]
BurnChecked(amount, decimals) ==
    [kind |-> "BurnChecked", amount |-> amount, decimals |-> decimals]

(***************************************************************************)
(* test_instruction_packing: each `check` value with the `expect` bytes    *)
(* the test compares its packing with and unpacks.                         *)
(***************************************************************************)
Vec(check, expect) == [check |-> check, expect |-> expect]
LeOne == <<1, 0, 0, 0, 0, 0, 0, 0>>

TestVectors ==
    << Vec(InitializeMint(2, Fill(32, 1), CNone), <<0, 2>> \o Fill(32, 1) \o <<0>>),
       Vec(InitializeMint(2, Fill(32, 2), CSome(Fill(32, 3))),
           <<0, 2>> \o Fill(32, 2) \o <<1>> \o Fill(32, 3)),
       Vec(InitializeAccount, <<1>>),
       Vec(InitializeMultisig(1), <<2, 1>>),
       Vec(Transfer(U64(1)), <<3>> \o LeOne),
       Vec(Approve(U64(1)), <<4>> \o LeOne),
       Vec(Revoke, <<5>>),
       Vec(SetAuthority("FreezeAccount", CSome(Fill(32, 4))), <<6, 1, 1>> \o Fill(32, 4)),
       Vec(MintTo(U64(1)), <<7>> \o LeOne),
       Vec(Burn(U64(1)), <<8>> \o LeOne),
       Vec(CloseAccount, <<9>>),
       Vec(FreezeAccount, <<10>>),
       Vec(ThawAccount, <<11>>),
       Vec(TransferChecked(U64(1), 2), <<12>> \o LeOne \o <<2>>),
       Vec(ApproveChecked(U64(1), 2), <<13>> \o LeOne \o <<2>>),
       Vec(MintToChecked(U64(1), 2), <<14>> \o LeOne \o <<2>>),
       Vec(BurnChecked(U64(1), 2), <<15>> \o LeOne \o <<2>>),
       Vec(InitializeAccount2(Fill(32, 2)), <<16>> \o Fill(32, 2)) >>

(***************************************************************************)
(* What the builders take from outside this file.                          *)
(***************************************************************************)
\* the identifier check_program_account accepts (crate::id())
TokenProgramId == Key(100)
\* some other program's identifier
OtherProgramId == Key(101)
\* sysvar::rent::id()
RentSysvarId == Key(102)
IdentityError == "IncorrectProgramId"

\* crate::check_program_account
check_program_account(token_program_id) ==
    IF token_program_id = TokenProgramId THEN Ok(<<>>) ELSE Err(IdentityError)

\* AccountMeta::new(pubkey, is_signer)
AccountMeta_new(pubkey, is_signer) ==
    [pubkey |-> pubkey, is_signer |-> is_signer, is_writable |-> TRUE]
\* AccountMeta::new_readonly(pubkey, is_signer)
AccountMeta_new_readonly(pubkey, is_signer) ==
    [pubkey |-> pubkey, is_signer |-> is_signer, is_writable |-> FALSE]

\* Instruction { program_id, accounts, data }
Instruction(program_id, accounts, data) ==
    [program_id |-> program_id, accounts |-> accounts, data |-> data]

\* the bytes of the variants the enum does not declare, as the wire table
\* and the expect buffers of test_instruction_packing give them
pack_undeclared(self) ==
    CASE self.kind = "InitializeMultisig" -> <<2, self.m>>
      [] self.kind = "Revoke" -> <<5>>
      [] self.kind = "SetAuthority" ->
            pack_pubkey_option(self.new_authority,
                               <<6, AuthorityType_into(self.authority_type)>>)
      [] self.kind = "CloseAccount" -> <<9>>
      [] self.kind = "FreezeAccount" -> <<10>>
      [] self.kind = "ThawAccount" -> <<11>>
      [] self.kind = "TransferChecked" ->
            <<12>> \o to_le_bytes(self.amount) \o <<self.decimals>>
      [] self.kind = "ApproveChecked" ->
            <<13>> \o to_le_bytes(self.amount) \o <<self.decimals>>
      [] self.kind = "MintToChecked" ->
            <<14>> \o to_le_bytes(self.amount) \o <<self.decimals>>
      [] self.kind = "BurnChecked" ->
            <<15>> \o to_le_bytes(self.amount) \o <<self.decimals>>

(***************************************************************************)
(* The builders.                                                           *)
(***************************************************************************)
\* mutant: the upper bound is not looked at
is_valid_signer_index_open(index) == MIN_SIGNERS <= index

\* mutant: the lower bound is not looked at
is_valid_signer_index_zero(index) == index <= MAX_SIGNERS

\* is_valid_signer_index: (MIN_SIGNERS..=MAX_SIGNERS).contains(&index)
is_valid_signer_index(index) == MIN_SIGNERS <= index /\ index <= MAX_SIGNERS

\* Option<&Pubkey>
None == [is_some |-> FALSE]
Some(pubkey) == [is_some |-> TRUE, value |-> pubkey]

\* Option<&Pubkey>.cloned().into(): the COption of an Option
COptionFrom(option) == IF option.is_some THEN CSome(option.value) ELSE CNone

\* for signer_pubkey in signer_pubkeys.iter() { accounts.push(new_readonly(.., is_signer)) }
push_signers(accounts, signer_pubkeys, is_signer) ==
    accounts \o [i \in 1..Len(signer_pubkeys) |->
                    AccountMeta_new_readonly(signer_pubkeys[i], is_signer)]

\* mutant: the authority signs whether or not signers are supplied
authority_meta_signs(authority_pubkey, signer_pubkeys) ==
    AccountMeta_new_readonly(authority_pubkey, TRUE)

\* the authority reference of the builders that take signer_pubkeys
authority_meta(authority_pubkey, signer_pubkeys) ==
    AccountMeta_new_readonly(authority_pubkey, signer_pubkeys = <<>>)

initialize_mint(token_program_id, mint_pubkey, mint_authority_pubkey, freeze_authority_pubkey, decimals) ==
    IF ~check_program_account(token_program_id).ok
    THEN check_program_account(token_program_id)
    ELSE LET freeze_authority == COptionFrom(freeze_authority_pubkey)
             data == pack(InitializeMint(decimals, mint_authority_pubkey, freeze_authority))
             accounts == << AccountMeta_new(mint_pubkey, FALSE),
                            AccountMeta_new_readonly(RentSysvarId, FALSE) >>
         IN Ok(Instruction(token_program_id, accounts, data))

initialize_account(token_program_id, account_pubkey, mint_pubkey, owner_pubkey) ==
    IF ~check_program_account(token_program_id).ok
    THEN check_program_account(token_program_id)
    ELSE LET data == pack(InitializeAccount)
             accounts == << AccountMeta_new(account_pubkey, FALSE),
                            AccountMeta_new_readonly(mint_pubkey, FALSE),
                            AccountMeta_new_readonly(owner_pubkey, FALSE),
                            AccountMeta_new_readonly(RentSysvarId, FALSE) >>
         IN Ok(Instruction(token_program_id, accounts, data))

\* mutant: the owner is also pushed as an account reference, as in initialize_account
initialize_account2_owner_pushed(token_program_id, account_pubkey, mint_pubkey, owner_pubkey) ==
    IF ~check_program_account(token_program_id).ok
    THEN check_program_account(token_program_id)
    ELSE LET data == pack(InitializeAccount2(owner_pubkey))
             accounts == << AccountMeta_new(account_pubkey, FALSE),
                            AccountMeta_new_readonly(mint_pubkey, FALSE),
                            AccountMeta_new_readonly(owner_pubkey, FALSE),
                            AccountMeta_new_readonly(RentSysvarId, FALSE) >>
         IN Ok(Instruction(token_program_id, accounts, data))

initialize_account2(token_program_id, account_pubkey, mint_pubkey, owner_pubkey) ==
    IF ~check_program_account(token_program_id).ok
    THEN check_program_account(token_program_id)
    ELSE LET data == pack(InitializeAccount2(owner_pubkey))
             accounts == << AccountMeta_new(account_pubkey, FALSE),
                            AccountMeta_new_readonly(mint_pubkey, FALSE),
                            AccountMeta_new_readonly(RentSysvarId, FALSE) >>
         IN Ok(Instruction(token_program_id, accounts, data))

\* mutant: the signers of the multisig are marked as transaction signers
initialize_multisig_signers_sign(token_program_id, multisig_pubkey, signer_pubkeys, m) ==
    IF ~check_program_account(token_program_id).ok
    THEN check_program_account(token_program_id)
    ELSE IF \/ ~is_valid_signer_index(m)
            \/ ~is_valid_signer_index(Len(signer_pubkeys))
            \/ m > Len(signer_pubkeys)
    THEN Err(MissingRequiredSignature)
    ELSE LET data == pack_undeclared(InitializeMultisig(m))
             accounts == push_signers(<< AccountMeta_new(multisig_pubkey, FALSE),
                                         AccountMeta_new_readonly(RentSysvarId, FALSE) >>,
                                      signer_pubkeys, TRUE)
         IN Ok(Instruction(token_program_id, accounts, data))

\* mutant: the signer bounds are checked before the program identifier
initialize_multisig_bounds_first(token_program_id, multisig_pubkey, signer_pubkeys, m) ==
    IF \/ ~is_valid_signer_index(m)
       \/ ~is_valid_signer_index(Len(signer_pubkeys))
       \/ m > Len(signer_pubkeys)
    THEN Err(MissingRequiredSignature)
    ELSE IF ~check_program_account(token_program_id).ok
    THEN check_program_account(token_program_id)
    ELSE LET data == pack_undeclared(InitializeMultisig(m))
             accounts == push_signers(<< AccountMeta_new(multisig_pubkey, FALSE),
                                         AccountMeta_new_readonly(RentSysvarId, FALSE) >>,
                                      signer_pubkeys, FALSE)
         IN Ok(Instruction(token_program_id, accounts, data))

initialize_multisig(token_program_id, multisig_pubkey, signer_pubkeys, m) ==
    IF ~check_program_account(token_program_id).ok
    THEN check_program_account(token_program_id)
    ELSE IF \/ ~is_valid_signer_index(m)
            \/ ~is_valid_signer_index(Len(signer_pubkeys))
            \/ m > Len(signer_pubkeys)
    THEN Err(MissingRequiredSignature)
    ELSE LET data == pack_undeclared(InitializeMultisig(m))
             accounts == push_signers(<< AccountMeta_new(multisig_pubkey, FALSE),
                                         AccountMeta_new_readonly(RentSysvarId, FALSE) >>,
                                      signer_pubkeys, FALSE)
         IN Ok(Instruction(token_program_id, accounts, data))

\* mutant: the source is marked like the authority, a signer when no signers are supplied
transfer_source_signs(token_program_id, source_pubkey, destination_pubkey, authority_pubkey, signer_pubkeys, amount) ==
    IF ~check_program_account(token_program_id).ok
    THEN check_program_account(token_program_id)
    ELSE LET data == pack(Transfer(amount))
             accounts == push_signers(<< AccountMeta_new(source_pubkey, signer_pubkeys = <<>>),
                                         AccountMeta_new(destination_pubkey, FALSE),
                                         authority_meta(authority_pubkey, signer_pubkeys) >>,
                                      signer_pubkeys, TRUE)
         IN Ok(Instruction(token_program_id, accounts, data))

transfer(token_program_id, source_pubkey, destination_pubkey, authority_pubkey, signer_pubkeys, amount) ==
    IF ~check_program_account(token_program_id).ok
    THEN check_program_account(token_program_id)
    ELSE LET data == pack(Transfer(amount))
             accounts == push_signers(<< AccountMeta_new(source_pubkey, FALSE),
                                         AccountMeta_new(destination_pubkey, FALSE),
                                         authority_meta(authority_pubkey, signer_pubkeys) >>,
                                      signer_pubkeys, TRUE)
         IN Ok(Instruction(token_program_id, accounts, data))

approve(token_program_id, source_pubkey, delegate_pubkey, owner_pubkey, signer_pubkeys, amount) ==
    IF ~check_program_account(token_program_id).ok
    THEN check_program_account(token_program_id)
    ELSE LET data == pack(Approve(amount))
             accounts == push_signers(<< AccountMeta_new(source_pubkey, FALSE),
                                         AccountMeta_new_readonly(delegate_pubkey, FALSE),
                                         authority_meta(owner_pubkey, signer_pubkeys) >>,
                                      signer_pubkeys, TRUE)
         IN Ok(Instruction(token_program_id, accounts, data))

revoke(token_program_id, source_pubkey, owner_pubkey, signer_pubkeys) ==
    IF ~check_program_account(token_program_id).ok
    THEN check_program_account(token_program_id)
    ELSE LET data == pack_undeclared(Revoke)
             accounts == push_signers(<< AccountMeta_new(source_pubkey, FALSE),
                                         authority_meta(owner_pubkey, signer_pubkeys) >>,
                                      signer_pubkeys, TRUE)
         IN Ok(Instruction(token_program_id, accounts, data))

set_authority(token_program_id, owned_pubkey, new_authority_pubkey, authority_type, owner_pubkey, signer_pubkeys) ==
    IF ~check_program_account(token_program_id).ok
    THEN check_program_account(token_program_id)
    ELSE LET new_authority == COptionFrom(new_authority_pubkey)
             data == pack_undeclared(SetAuthority(authority_type, new_authority))
             accounts == push_signers(<< AccountMeta_new(owned_pubkey, FALSE),
                                         authority_meta(owner_pubkey, signer_pubkeys) >>,
                                      signer_pubkeys, TRUE)
         IN Ok(Instruction(token_program_id, accounts, data))

\* mutant: the supplied signers are held to the bounds of a multisig
mint_to_bounded(token_program_id, mint_pubkey, account_pubkey, owner_pubkey, signer_pubkeys, amount) ==
    IF ~check_program_account(token_program_id).ok
    THEN check_program_account(token_program_id)
    ELSE IF signer_pubkeys # <<>> /\ ~is_valid_signer_index(Len(signer_pubkeys))
    THEN Err(MissingRequiredSignature)
    ELSE LET data == pack(MintTo(amount))
             accounts == push_signers(<< AccountMeta_new(mint_pubkey, FALSE),
                                         AccountMeta_new(account_pubkey, FALSE),
                                         authority_meta(owner_pubkey, signer_pubkeys) >>,
                                      signer_pubkeys, TRUE)
         IN Ok(Instruction(token_program_id, accounts, data))

mint_to(token_program_id, mint_pubkey, account_pubkey, owner_pubkey, signer_pubkeys, amount) ==
    IF ~check_program_account(token_program_id).ok
    THEN check_program_account(token_program_id)
    ELSE LET data == pack(MintTo(amount))
             accounts == push_signers(<< AccountMeta_new(mint_pubkey, FALSE),
                                         AccountMeta_new(account_pubkey, FALSE),
                                         authority_meta(owner_pubkey, signer_pubkeys) >>,
                                      signer_pubkeys, TRUE)
         IN Ok(Instruction(token_program_id, accounts, data))

burn(token_program_id, account_pubkey, mint_pubkey, authority_pubkey, signer_pubkeys, amount) ==
    IF ~check_program_account(token_program_id).ok
    THEN check_program_account(token_program_id)
    ELSE LET data == pack(Burn(amount))
             accounts == push_signers(<< AccountMeta_new(account_pubkey, FALSE),
                                         AccountMeta_new(mint_pubkey, FALSE),
                                         authority_meta(authority_pubkey, signer_pubkeys) >>,
                                      signer_pubkeys, TRUE)
         IN Ok(Instruction(token_program_id, accounts, data))

close_account(token_program_id, account_pubkey, destination_pubkey, owner_pubkey, signer_pubkeys) ==
    IF ~check_program_account(token_program_id).ok
    THEN check_program_account(token_program_id)
    ELSE LET data == pack_undeclared(CloseAccount)
             accounts == push_signers(<< AccountMeta_new(account_pubkey, FALSE),
                                         AccountMeta_new(destination_pubkey, FALSE),
                                         authority_meta(owner_pubkey, signer_pubkeys) >>,
                                      signer_pubkeys, TRUE)
         IN Ok(Instruction(token_program_id, accounts, data))

freeze_account(token_program_id, account_pubkey, mint_pubkey, owner_pubkey, signer_pubkeys) ==
    IF ~check_program_account(token_program_id).ok
    THEN check_program_account(token_program_id)
    ELSE LET data == pack_undeclared(FreezeAccount)
             accounts == push_signers(<< AccountMeta_new(account_pubkey, FALSE),
                                         AccountMeta_new_readonly(mint_pubkey, FALSE),
                                         authority_meta(owner_pubkey, signer_pubkeys) >>,
                                      signer_pubkeys, TRUE)
         IN Ok(Instruction(token_program_id, accounts, data))

thaw_account(token_program_id, account_pubkey, mint_pubkey, owner_pubkey, signer_pubkeys) ==
    IF ~check_program_account(token_program_id).ok
    THEN check_program_account(token_program_id)
    ELSE LET data == pack_undeclared(ThawAccount)
             accounts == push_signers(<< AccountMeta_new(account_pubkey, FALSE),
                                         AccountMeta_new_readonly(mint_pubkey, FALSE),
                                         authority_meta(owner_pubkey, signer_pubkeys) >>,
                                      signer_pubkeys, TRUE)
         IN Ok(Instruction(token_program_id, accounts, data))

\* mutant: the destination is pushed before the mint, as in transfer
transfer_checked_swapped(token_program_id, source_pubkey, mint_pubkey, destination_pubkey, authority_pubkey, signer_pubkeys, amount, decimals) ==
    IF ~check_program_account(token_program_id).ok
    THEN check_program_account(token_program_id)
    ELSE LET data == pack_undeclared(TransferChecked(amount, decimals))
             accounts == push_signers(<< AccountMeta_new(source_pubkey, FALSE),
                                         AccountMeta_new(destination_pubkey, FALSE),
                                         AccountMeta_new_readonly(mint_pubkey, FALSE),
                                         authority_meta(authority_pubkey, signer_pubkeys) >>,
                                      signer_pubkeys, TRUE)
         IN Ok(Instruction(token_program_id, accounts, data))

transfer_checked(token_program_id, source_pubkey, mint_pubkey, destination_pubkey, authority_pubkey, signer_pubkeys, amount, decimals) ==
    IF ~check_program_account(token_program_id).ok
    THEN check_program_account(token_program_id)
    ELSE LET data == pack_undeclared(TransferChecked(amount, decimals))
             accounts == push_signers(<< AccountMeta_new(source_pubkey, FALSE),
                                         AccountMeta_new_readonly(mint_pubkey, FALSE),
                                         AccountMeta_new(destination_pubkey, FALSE),
                                         authority_meta(authority_pubkey, signer_pubkeys) >>,
                                      signer_pubkeys, TRUE)
         IN Ok(Instruction(token_program_id, accounts, data))

approve_checked(token_program_id, source_pubkey, mint_pubkey, delegate_pubkey, owner_pubkey, signer_pubkeys, amount, decimals) ==
    IF ~check_program_account(token_program_id).ok
    THEN check_program_account(token_program_id)
    ELSE LET data == pack_undeclared(ApproveChecked(amount, decimals))
             accounts == push_signers(<< AccountMeta_new(source_pubkey, FALSE),
                                         AccountMeta_new_readonly(mint_pubkey, FALSE),
                                         AccountMeta_new_readonly(delegate_pubkey, FALSE),
                                         authority_meta(owner_pubkey, signer_pubkeys) >>,
                                      signer_pubkeys, TRUE)
         IN Ok(Instruction(token_program_id, accounts, data))

mint_to_checked(token_program_id, mint_pubkey, account_pubkey, owner_pubkey, signer_pubkeys, amount, decimals) ==
    IF ~check_program_account(token_program_id).ok
    THEN check_program_account(token_program_id)
    ELSE LET data == pack_undeclared(MintToChecked(amount, decimals))
             accounts == push_signers(<< AccountMeta_new(mint_pubkey, FALSE),
                                         AccountMeta_new(account_pubkey, FALSE),
                                         authority_meta(owner_pubkey, signer_pubkeys) >>,
                                      signer_pubkeys, TRUE)
         IN Ok(Instruction(token_program_id, accounts, data))

burn_checked(token_program_id, account_pubkey, mint_pubkey, authority_pubkey, signer_pubkeys, amount, decimals) ==
    IF ~check_program_account(token_program_id).ok
    THEN check_program_account(token_program_id)
    ELSE LET data == pack_undeclared(BurnChecked(amount, decimals))
             accounts == push_signers(<< AccountMeta_new(account_pubkey, FALSE),
                                         AccountMeta_new(mint_pubkey, FALSE),
                                         authority_meta(authority_pubkey, signer_pubkeys) >>,
                                      signer_pubkeys, TRUE)
         IN Ok(Instruction(token_program_id, accounts, data))

(***************************************************************************)
(* Inputs of the harness.                                                  *)
(***************************************************************************)
BSeq(S, n) == UNION {[1..k -> S] : k \in 0..n}
TrailBytes == {0, 1, 255}
Trailers == BSeq(TrailBytes, MaxTrail) \ {<<>>}
RawBytes == {0, 1}
RawBuffers == {<<>>} \cup {<<t>> \o body : t \in Byte, body \in BSeq(RawBytes, MaxRawBody)}
DamageBytes == {0, 1, 2, 17, 255}
DiscBytes == {0, 1, 2, 255}
OptionInputs ==
    {<<>>} \cup
    {<<d>> \o Take(k, n) \o t :
        d \in DiscBytes, k \in Pubkeys, n \in 0..PUBKEY_BYTES,
        t \in BSeq(TrailBytes, MaxTrail)}

ProgramIds == {TokenProgramId, OtherProgramId}
\* the identifiers of the (up to four) fixed roles of a builder
Roles ==
    {<<Key(a), Key(b), Key((a % NumKeys) + 1), Key((b % NumKeys) + 1)>> :
        a \in 1..NumKeys, b \in 1..NumKeys}
SignerLists == BSeq(Pubkeys, MaxSignerKeys)
BuilderAmounts == {U64(1), U64Bytes}
BuilderDecimals == {2, 255}
MValues == {0, 1, 2, 255}
Options == {None} \cup {Some(k) : k \in Pubkeys}

NoInstr == [kind |-> "none"]
NoCall == [fn |-> "none"]
Raw == [raw |-> TRUE]

(***************************************************************************)
(* State.                                                                  *)
(***************************************************************************)
VARIABLES
    pc,       \* "idle", "wire" (a buffer is on its way), "decoded", "called"
    instr,    \* the instruction that was packed (or the test's check value)
    sent,     \* the bytes as packed / as the test expects / as received
    wire,     \* the bytes handed to unpack
    origin,   \* "none", "pack", "vector", "raw"
    decoded,  \* the result of unpack
    call,     \* the last call of a helper codec or builder, with its arguments
    ret       \* what that call returned

vars == <<pc, instr, sent, wire, origin, decoded, call, ret>>

Init ==
    /\ pc = "idle"
    /\ instr = NoInstr
    /\ sent = <<>>
    /\ wire = <<>>
    /\ origin = "none"
    /\ decoded = NotRun
    /\ call = NoCall
    /\ ret = NotRun

NoCodec ==
    /\ instr' = NoInstr
    /\ sent' = <<>>
    /\ wire' = <<>>
    /\ origin' = "none"
    /\ decoded' = NotRun

Put(v, bytes, from) ==
    /\ pc' = "wire"
    /\ instr' = v
    /\ sent' = bytes
    /\ wire' = bytes
    /\ origin' = from
    /\ decoded' = NotRun
    /\ call' = NoCall
    /\ ret' = NotRun

\* an instruction of the enum is packed
Pack ==
    /\ pc = "idle"
    /\ \E v \in TokenInstruction : Put(v, pack(v), "pack")

\* test_instruction_packing hands one of its expect buffers to unpack
TestVector ==
    /\ pc = "idle"
    /\ \E i \in DOMAIN TestVectors :
          Put(TestVectors[i].check, TestVectors[i].expect, "vector")

\* some byte buffer arrives
Receive ==
    /\ pc = "idle"
    /\ \E b \in RawBuffers : Put(NoInstr, b, "raw")

Intact ==
    /\ pc = "wire"
    /\ origin \in {"pack", "vector"}
    /\ wire = sent

Edit(bytes) ==
    /\ wire' = bytes
    /\ UNCHANGED <<pc, instr, sent, origin, decoded, call, ret>>

\* the buffer loses its end
Truncate ==
    /\ Intact
    /\ \E n \in 0..(Len(wire) - 1) : Edit(Take(wire, n))

\* bytes are appended behind the packed instruction
Extend ==
    /\ Intact
    /\ \E x \in Trailers : Edit(wire \o x)

\* one byte of the buffer is replaced
Damage ==
    /\ Intact
    /\ \E p \in 1..Len(wire), b \in DamageBytes :
          /\ b # wire[p]
          /\ Edit([wire EXCEPT ![p] = b])

\* TokenInstruction::unpack(&wire)
Unpack ==
    /\ pc = "wire"
    /\ decoded' = unpack(wire)
    /\ pc' = "decoded"
    /\ UNCHANGED <<instr, sent, wire, origin, call, ret>>

Called(c, r) ==
    /\ pc' = "called"
    /\ call' = c
    /\ ret' = r
    /\ NoCodec

\* unpack_pubkey_option on some bytes
UnpackPubkeyOption ==
    /\ pc = "idle"
    /\ \E input \in OptionInputs :
        Called([fn |-> "unpack_pubkey_option", input |-> input, of |-> Raw],
               unpack_pubkey_option(input))

\* pack_pubkey_option into an empty buffer
PackPubkeyOption ==
    /\ pc = "idle"
    /\ \E value \in OptionalPubkeys :
        Called([fn |-> "pack_pubkey_option", value |-> value],
               pack_pubkey_option(value, <<>>))

\* unpack_pubkey_option on what pack_pubkey_option produced
UnpackPackedOption ==
    /\ pc = "called"
    /\ call.fn = "pack_pubkey_option"
    /\ Called([fn |-> "unpack_pubkey_option", input |-> ret, of |-> call.value],
              unpack_pubkey_option(ret))

\* AuthorityType::into
AuthorityInto ==
    /\ pc = "idle"
    /\ \E k \in AuthorityType :
        Called([fn |-> "AuthorityType::into", self |-> k], AuthorityType_into(k))

\* AuthorityType::from on any byte
AuthorityFrom ==
    /\ pc = "idle"
    /\ \E b \in Byte :
        Called([fn |-> "AuthorityType::from", index |-> b, of |-> "raw"],
               AuthorityType_from(b))

\* AuthorityType::from on the byte AuthorityType::into returned
AuthorityFromInto ==
    /\ pc = "called"
    /\ call.fn = "AuthorityType::into"
    /\ Called([fn |-> "AuthorityType::from", index |-> ret, of |-> call.self],
              AuthorityType_from(ret))

(***************************************************************************)
(* Calls of the builders.                                                  *)
(***************************************************************************)
CallInitializeMint ==
    /\ pc = "idle"
    /\ \E p \in ProgramIds, r \in Roles, f \in Options, d \in BuilderDecimals :
        Called([fn |-> "initialize_mint", token_program_id |-> p,
               mint_pubkey |-> r[1], mint_authority_pubkey |-> r[2],
               freeze_authority_pubkey |-> f, decimals |-> d],
               initialize_mint(p, r[1], r[2], f, d))

CallInitializeAccount ==
    /\ pc = "idle"
    /\ \E p \in ProgramIds, r \in Roles :
        Called([fn |-> "initialize_account", token_program_id |-> p,
               account_pubkey |-> r[1], mint_pubkey |-> r[2], owner_pubkey |-> r[3]],
               initialize_account(p, r[1], r[2], r[3]))

CallInitializeAccount2 ==
    /\ pc = "idle"
    /\ \E p \in ProgramIds, r \in Roles :
        Called([fn |-> "initialize_account2", token_program_id |-> p,
               account_pubkey |-> r[1], mint_pubkey |-> r[2], owner_pubkey |-> r[3]],
               initialize_account2(p, r[1], r[2], r[3]))

CallInitializeMultisig ==
    /\ pc = "idle"
    /\ \E p \in ProgramIds, r \in Roles, s \in SignerLists, m \in MValues :
        Called([fn |-> "initialize_multisig", token_program_id |-> p,
               multisig_pubkey |-> r[1], signer_pubkeys |-> s, m |-> m],
               initialize_multisig(p, r[1], s, m))

CallTransfer ==
    /\ pc = "idle"
    /\ \E p \in ProgramIds, r \in Roles, s \in SignerLists, a \in BuilderAmounts :
        Called([fn |-> "transfer", token_program_id |-> p,
               source_pubkey |-> r[1], destination_pubkey |-> r[2],
               authority_pubkey |-> r[3], signer_pubkeys |-> s, amount |-> a],
               transfer(p, r[1], r[2], r[3], s, a))

CallApprove ==
    /\ pc = "idle"
    /\ \E p \in ProgramIds, r \in Roles, s \in SignerLists, a \in BuilderAmounts :
        Called([fn |-> "approve", token_program_id |-> p,
               source_pubkey |-> r[1], delegate_pubkey |-> r[2],
               owner_pubkey |-> r[3], signer_pubkeys |-> s, amount |-> a],
               approve(p, r[1], r[2], r[3], s, a))

CallRevoke ==
    /\ pc = "idle"
    /\ \E p \in ProgramIds, r \in Roles, s \in SignerLists :
        Called([fn |-> "revoke", token_program_id |-> p,
               source_pubkey |-> r[1], owner_pubkey |-> r[2], signer_pubkeys |-> s],
               revoke(p, r[1], r[2], s))

CallSetAuthority ==
    /\ pc = "idle"
    /\ \E p \in ProgramIds, r \in Roles, s \in SignerLists, n \in Options, t \in AuthorityType :
        Called([fn |-> "set_authority", token_program_id |-> p,
               owned_pubkey |-> r[1], new_authority_pubkey |-> n,
               authority_type |-> t, owner_pubkey |-> r[2], signer_pubkeys |-> s],
               set_authority(p, r[1], n, t, r[2], s))

CallMintTo ==
    /\ pc = "idle"
    /\ \E p \in ProgramIds, r \in Roles, s \in SignerLists, a \in BuilderAmounts :
        Called([fn |-> "mint_to", token_program_id |-> p,
               mint_pubkey |-> r[1], account_pubkey |-> r[2],
               owner_pubkey |-> r[3], signer_pubkeys |-> s, amount |-> a],
               mint_to(p, r[1], r[2], r[3], s, a))

CallBurn ==
    /\ pc = "idle"
    /\ \E p \in ProgramIds, r \in Roles, s \in SignerLists, a \in BuilderAmounts :
        Called([fn |-> "burn", token_program_id |-> p,
               account_pubkey |-> r[1], mint_pubkey |-> r[2],
               authority_pubkey |-> r[3], signer_pubkeys |-> s, amount |-> a],
               burn(p, r[1], r[2], r[3], s, a))

CallCloseAccount ==
    /\ pc = "idle"
    /\ \E p \in ProgramIds, r \in Roles, s \in SignerLists :
        Called([fn |-> "close_account", token_program_id |-> p,
               account_pubkey |-> r[1], destination_pubkey |-> r[2],
               owner_pubkey |-> r[3], signer_pubkeys |-> s],
               close_account(p, r[1], r[2], r[3], s))

CallFreezeAccount ==
    /\ pc = "idle"
    /\ \E p \in ProgramIds, r \in Roles, s \in SignerLists :
        Called([fn |-> "freeze_account", token_program_id |-> p,
               account_pubkey |-> r[1], mint_pubkey |-> r[2],
               owner_pubkey |-> r[3], signer_pubkeys |-> s],
               freeze_account(p, r[1], r[2], r[3], s))

CallThawAccount ==
    /\ pc = "idle"
    /\ \E p \in ProgramIds, r \in Roles, s \in SignerLists :
        Called([fn |-> "thaw_account", token_program_id |-> p,
               account_pubkey |-> r[1], mint_pubkey |-> r[2],
               owner_pubkey |-> r[3], signer_pubkeys |-> s],
               thaw_account(p, r[1], r[2], r[3], s))

CallTransferChecked ==
    /\ pc = "idle"
    /\ \E p \in ProgramIds, r \in Roles, s \in SignerLists,
          a \in BuilderAmounts, d \in BuilderDecimals :
        Called([fn |-> "transfer_checked", token_program_id |-> p,
               source_pubkey |-> r[1], mint_pubkey |-> r[2],
               destination_pubkey |-> r[3], authority_pubkey |-> r[4],
               signer_pubkeys |-> s, amount |-> a, decimals |-> d],
               transfer_checked(p, r[1], r[2], r[3], r[4], s, a, d))

CallApproveChecked ==
    /\ pc = "idle"
    /\ \E p \in ProgramIds, r \in Roles, s \in SignerLists,
          a \in BuilderAmounts, d \in BuilderDecimals :
        Called([fn |-> "approve_checked", token_program_id |-> p,
               source_pubkey |-> r[1], mint_pubkey |-> r[2],
               delegate_pubkey |-> r[3], owner_pubkey |-> r[4],
               signer_pubkeys |-> s, amount |-> a, decimals |-> d],
               approve_checked(p, r[1], r[2], r[3], r[4], s, a, d))

CallMintToChecked ==
    /\ pc = "idle"
    /\ \E p \in ProgramIds, r \in Roles, s \in SignerLists,
          a \in BuilderAmounts, d \in BuilderDecimals :
        Called([fn |-> "mint_to_checked", token_program_id |-> p,
               mint_pubkey |-> r[1], account_pubkey |-> r[2],
               owner_pubkey |-> r[3], signer_pubkeys |-> s,
               amount |-> a, decimals |-> d],
               mint_to_checked(p, r[1], r[2], r[3], s, a, d))

CallBurnChecked ==
    /\ pc = "idle"
    /\ \E p \in ProgramIds, r \in Roles, s \in SignerLists,
          a \in BuilderAmounts, d \in BuilderDecimals :
        Called([fn |-> "burn_checked", token_program_id |-> p,
               account_pubkey |-> r[1], mint_pubkey |-> r[2],
               authority_pubkey |-> r[3], signer_pubkeys |-> s,
               amount |-> a, decimals |-> d],
               burn_checked(p, r[1], r[2], r[3], s, a, d))

Builders ==
    {"initialize_mint", "initialize_account", "initialize_account2",
     "initialize_multisig", "transfer", "approve", "revoke", "set_authority",
     "mint_to", "burn", "close_account", "freeze_account", "thaw_account",
     "transfer_checked", "approve_checked", "mint_to_checked", "burn_checked"}

\* the harness is done with one run and starts the next
Reset ==
    /\ pc \in {"decoded", "called"}
    /\ pc' = "idle"
    /\ call' = NoCall
    /\ ret' = NotRun
    /\ NoCodec

Next ==
    \/ Reset
    \/ Pack
    \/ TestVector
    \/ Receive
    \/ Truncate
    \/ Extend
    \/ Damage
    \/ Unpack
    \/ UnpackPubkeyOption
    \/ PackPubkeyOption
    \/ UnpackPackedOption
    \/ AuthorityInto
    \/ AuthorityFrom
    \/ AuthorityFromInto
    \/ CallInitializeMint
    \/ CallInitializeAccount
    \/ CallInitializeAccount2
    \/ CallInitializeMultisig
    \/ CallTransfer
    \/ CallApprove
    \/ CallRevoke
    \/ CallSetAuthority
    \/ CallMintTo
    \/ CallBurn
    \/ CallCloseAccount
    \/ CallFreezeAccount
    \/ CallThawAccount
    \/ CallTransferChecked
    \/ CallApproveChecked
    \/ CallMintToChecked
    \/ CallBurnChecked

Spec == Init /\ [][Next]_vars

(***************************************************************************)
(* Properties.                                                             *)
(***************************************************************************)
\* the buffer handed to unpack is the one that was packed (or that the test expects)
Unpacked == pc = "decoded"
UnpackedIntact == Unpacked /\ origin \in {"pack", "vector"} /\ wire = sent

\* the wire table: the variant of each tag 0..16
Catalog ==
    << "InitializeMint", "InitializeAccount", "InitializeMultisig", "Transfer",
       "Approve", "Revoke", "SetAuthority", "MintTo", "Burn", "CloseAccount",
       "FreezeAccount", "ThawAccount", "TransferChecked", "ApproveChecked",
       "MintToChecked", "BurnChecked", "InitializeAccount2" >>
CatalogTags == 0..16

\* C1: round-trip law.  Unpacking the packing of any instruction of the
\* catalog (tags 0..16) returns Ok of that instruction, same variant and
\* same field values.
C1_RoundTrip == UnpackedIntact => decoded = Ok(instr)

\* C2: the tag-to-variant mapping is total and injective over the catalog.
\* Unpacking a tag in 0..16 followed by a well-formed payload succeeds and
\* returns the variant the wire table assigns to that tag (so no two tags
\* decode to the same variant).
C2_TagMapping ==
    (UnpackedIntact /\ wire[1] \in CatalogTags)
        => (decoded.ok /\ decoded.val.kind = Catalog[wire[1] + 1])

\* C3: unknown tags are rejected.  Whatever follows it, a first byte
\* outside 0..16 makes unpack return Err(InvalidInstruction).
C3_UnknownTagRejected ==
    (Unpacked /\ wire # <<>> /\ wire[1] \notin CatalogTags)
        => decoded = Err(InvalidInstruction)

\* witness of C3: the single byte 255 was unpacked and rejected
C3_Witness == Unpacked /\ wire = <<255>> /\ decoded = Err(InvalidInstruction)

\* the bytes behind the tag are fewer than the fixed-width fields need
Truncated(buf) ==
    \/ buf = <<>>
    \/ buf[1] \in {3, 4, 7, 8} /\ Len(buf) - 1 < 8
    \/ buf[1] = 16 /\ Len(buf) - 1 < 32
    \/ buf[1] = 0 /\ Len(buf) - 1 < 1 + 32 + 1
    \/ buf[1] = 0 /\ Len(buf) - 1 >= 1 + 32 + 1 /\ buf[35] = 1 /\ Len(buf) - 35 < 32

\* C4: truncated input is rejected.  unpack of the empty buffer, or of a
\* buffer too short for the amount, the owner, the InitializeMint fields or
\* a present freeze authority, returns Err(InvalidInstruction) and no
\* instruction.
C4_TruncatedRejected ==
    (Unpacked /\ Truncated(wire)) => decoded = Err(InvalidInstruction)

\* witness of C4: a packed InitializeMint with a present freeze authority lost
\* part of that authority's bytes and was rejected
C4_Witness ==
    /\ Unpacked
    /\ origin = "pack"
    /\ instr.kind = "InitializeMint"
    /\ instr.freeze_authority.some
    /\ Len(wire) \in 36..66
    /\ wire = Take(sent, Len(wire))
    /\ decoded = Err(InvalidInstruction)

\* bytes were appended behind a buffer that unpack accepts
Extended ==
    /\ Unpacked
    /\ origin \in {"pack", "vector"}
    /\ Len(wire) > Len(sent)
    /\ Take(wire, Len(sent)) = sent
    /\ unpack(sent) = Ok(instr)

\* C5: trailing bytes are ignored.  For an instruction v that unpack
\* accepts, unpack(pack(v) ++ x) is the same Ok(v) as unpack(pack(v)).
C5_TrailingIgnored == Extended => (decoded = Ok(instr) /\ decoded = unpack(sent))

\* witness of C5: two bytes were appended to a packed Transfer, which still
\* decoded to the Transfer that was packed
C5_Witness ==
    /\ Extended
    /\ instr.kind = "Transfer"
    /\ Len(wire) = Len(sent) + 2
    /\ decoded = Ok(instr)

OptionUnpacked == pc = "called" /\ call.fn = "unpack_pubkey_option"

\* C6: the OptionalIdentifier sub-encoding.  A leading 0 decodes to absent
\* and consumes 1 byte; a leading 1 followed by at least 32 bytes decodes to
\* those 32 bytes and consumes 33; every other input is
\* Err(InvalidInstruction); unpacking what pack_pubkey_option wrote returns
\* the value packed and an empty rest.
C6_OptionalIdentifier ==
    OptionUnpacked =>
        LET input == call.input IN
        /\ (input # <<>> /\ input[1] = 0) =>
              /\ ret = Ok([value |-> CNone, rest |-> SubSeq(input, 2, Len(input))])
              /\ Len(ret.val.rest) = Len(input) - 1
        /\ (input # <<>> /\ input[1] = 1 /\ Len(input) >= 33) =>
              /\ ret = Ok([value |-> CSome(SubSeq(input, 2, 33)),
                           rest |-> SubSeq(input, 34, Len(input))])
              /\ Len(ret.val.rest) = Len(input) - 33
        /\ (\/ input = <<>>
            \/ input[1] \notin {0, 1}
            \/ input[1] = 1 /\ Len(input) < 33) => ret = Err(InvalidInstruction)
        /\ call.of # Raw => ret = Ok([value |-> call.of, rest |-> <<>>])

\* witness of C6: a present identifier was packed into 33 bytes and unpacked
\* to itself
C6_Witness ==
    /\ OptionUnpacked
    /\ call.of # Raw
    /\ call.of.some
    /\ Len(call.input) = 33
    /\ ret = Ok([value |-> call.of, rest |-> <<>>])

\* the codes of the authority kinds, 0..3 in this order
AuthorityCodes == <<"MintTokens", "FreezeAccount", "AccountOwner", "CloseAccount">>

\* C7: the AuthorityType codec.  into maps MintTokens, FreezeAccount,
\* AccountOwner, CloseAccount to 0, 1, 2, 3; from returns the matching kind
\* for 0..3 (so from(into(k)) = Ok(k)) and Err(InvalidInstruction) for
\* every byte in 4..255.
C7_AuthorityCodec ==
    /\ (pc = "called" /\ call.fn = "AuthorityType::into") =>
          (ret \in 0..3 /\ AuthorityCodes[ret + 1] = call.self)
    /\ (pc = "called" /\ call.fn = "AuthorityType::from") =>
          /\ call.index \in 0..3 => ret = Ok(AuthorityCodes[call.index + 1])
          /\ call.index \in 4..255 => ret = Err(InvalidInstruction)
          /\ call.of # "raw" => ret = Ok(call.of)

\* witness of C7: from was applied to the byte into returned for AccountOwner
C7_Witness ==
    /\ pc = "called"
    /\ call.fn = "AuthorityType::from"
    /\ call.of = "AccountOwner"
    /\ call.index = 2
    /\ ret = Ok("AccountOwner")

\* byte i (0..7) of a u64: (amount / 256^i) mod 256
ByteOf(amount, i) ==
    (amount[(i \div 2) + 1] \div (IF i % 2 = 0 THEN 1 ELSE 256)) % 256

AmountTag(kind) ==
    CASE kind = "Transfer" -> 3 [] kind = "Approve" -> 4
      [] kind = "MintTo" -> 7 [] kind = "Burn" -> 8

\* C8: byte-exact pack layout.  Transfer, Approve, MintTo, Burn pack to 9
\* bytes, the tag 3, 4, 7, 8 and the amount little-endian; InitializeMint to
\* [0, decimals], the 32 mint-authority bytes and the OptionalIdentifier
\* encoding of the freeze authority (35 bytes when absent, 67 when present);
\* InitializeAccount to [1]; InitializeAccount2 to [16] and the 32 owner bytes.
C8_PackLayout ==
    origin = "pack" =>
        /\ instr.kind \in {"Transfer", "Approve", "MintTo", "Burn"} =>
              /\ Len(sent) = 9
              /\ sent[1] = AmountTag(instr.kind)
              /\ \A i \in 0..7 : sent[i + 2] = ByteOf(instr.amount, i)
        /\ instr.kind = "InitializeMint" =>
              /\ Len(sent) >= 35
              /\ sent[1] = 0
              /\ sent[2] = instr.decimals
              /\ SubSeq(sent, 3, 34) = instr.mint_authority
              /\ ~instr.freeze_authority.some => (Len(sent) = 35 /\ sent[35] = 0)
              /\ instr.freeze_authority.some =>
                    /\ Len(sent) = 67
                    /\ sent[35] = 1
                    /\ SubSeq(sent, 36, 67) = instr.freeze_authority.key
        /\ instr.kind = "InitializeAccount" => sent = <<1>>
        /\ instr.kind = "InitializeAccount2" =>
              (Len(sent) = 33 /\ sent[1] = 16 /\ SubSeq(sent, 2, 33) = instr.owner)

\* witness of C8: the amount 0x0807060504030201 was packed as a Transfer
C8_Witness ==
    /\ origin = "pack"
    /\ instr = Transfer(U64Bytes)
    /\ sent = <<3, 1, 2, 3, 4, 5, 6, 7, 8>>

BuilderCalled == pc = "called" /\ call.fn \in Builders
InBounds(n) == n \in MIN_SIGNERS..MAX_SIGNERS

\* C9: the multisig bound property.  With a valid program identifier,
\* initialize_multisig returns Err(MissingRequiredSignature), and no
\* envelope, whenever m or the number of signers lies outside
\* [MIN_SIGNERS, MAX_SIGNERS] or m exceeds the number of signers.
C9_MultisigBounds ==
    (/\ pc = "called"
     /\ call.fn = "initialize_multisig"
     /\ call.token_program_id = TokenProgramId
     /\ \/ ~InBounds(call.m)
        \/ ~InBounds(Len(call.signer_pubkeys))
        \/ call.m > Len(call.signer_pubkeys))
        => ret = Err(MissingRequiredSignature)

\* witness of C9: m = 2 with two signers, above the bound though m <= n
C9_Witness ==
    /\ pc = "called"
    /\ call.fn = "initialize_multisig"
    /\ call.token_program_id = TokenProgramId
    /\ call.m = 2
    /\ Len(call.signer_pubkeys) = 2
    /\ ret = Err(MissingRequiredSignature)

\* C10: the program identifier is checked first.  A builder called with an
\* identifier check_program_account rejects returns that error and no
\* envelope, whatever its other arguments; initialize_multisig with a wrong
\* identifier and out-of-bounds (m, n) returns the identity error, not
\* MissingRequiredSignature.
C10_IdentityFirst ==
    (BuilderCalled /\ ~check_program_account(call.token_program_id).ok)
        => (ret = check_program_account(call.token_program_id) /\ ret = Err(IdentityError))

\* witness of C10: initialize_multisig with a wrong identifier, m = 0 and no
\* signer returned the identity error
C10_Witness ==
    /\ pc = "called"
    /\ call.fn = "initialize_multisig"
    /\ call.token_program_id = OtherProgramId
    /\ call.m = 0
    /\ call.signer_pubkeys = <<>>
    /\ ret = Err(IdentityError)

\* the builders that take an authority and trailing signer identifiers
AuthorityBuilders ==
    {"transfer", "approve", "revoke", "set_authority", "mint_to", "burn",
     "close_account", "freeze_account", "thaw_account", "transfer_checked",
     "approve_checked", "mint_to_checked", "burn_checked"}

\* the position of the authority reference: behind the fixed roles
AuthorityIndex(fn) ==
    IF fn \in {"revoke", "set_authority"} THEN 2
    ELSE IF fn \in {"transfer_checked", "approve_checked"} THEN 4
    ELSE 3

\* the identifier passed as authority (authority_pubkey or owner_pubkey)
AuthorityKey(c) ==
    IF c.fn \in {"transfer", "burn", "transfer_checked", "burn_checked"}
    THEN c.authority_pubkey
    ELSE c.owner_pubkey

AuthorityBuilt == pc = "called" /\ call.fn \in AuthorityBuilders /\ ret.ok

\* C11: the authority convention.  In the envelope of every authority-
\* bearing builder the authority reference is read-only; with no trailing
\* signer it is a signer and the last reference; with k >= 1 trailing
\* signers it is no signer and exactly k references follow it, read-only
\* signers carrying the supplied identifiers in the supplied order.
C11_AuthorityConvention ==
    AuthorityBuilt =>
        LET accounts == ret.val.accounts
            a == AuthorityIndex(call.fn)
            k == Len(call.signer_pubkeys)
        IN /\ Len(accounts) = a + k
           /\ accounts[a].pubkey = AuthorityKey(call)
           /\ ~accounts[a].is_writable
           /\ accounts[a].is_signer = (k = 0)
           /\ \A i \in 1..k :
                 /\ accounts[a + i].pubkey = call.signer_pubkeys[i]
                 /\ accounts[a + i].is_signer
                 /\ ~accounts[a + i].is_writable

\* witness of C11: set_authority was built with two different trailing signers
C11_Witness ==
    /\ AuthorityBuilt
    /\ call.fn = "set_authority"
    /\ Len(call.signer_pubkeys) = 2
    /\ call.signer_pubkeys[1] # call.signer_pubkeys[2]
    /\ ~ret.val.accounts[2].is_signer
    /\ ret.val.accounts[4].pubkey = call.signer_pubkeys[2]

\* the builder a call record names, applied to the record's arguments
Invoke(c) ==
    CASE c.fn = "initialize_mint" ->
            initialize_mint(c.token_program_id, c.mint_pubkey, c.mint_authority_pubkey,
                            c.freeze_authority_pubkey, c.decimals)
      [] c.fn = "initialize_account" ->
            initialize_account(c.token_program_id, c.account_pubkey, c.mint_pubkey,
                               c.owner_pubkey)
      [] c.fn = "initialize_account2" ->
            initialize_account2(c.token_program_id, c.account_pubkey, c.mint_pubkey,
                                c.owner_pubkey)
      [] c.fn = "initialize_multisig" ->
            initialize_multisig(c.token_program_id, c.multisig_pubkey, c.signer_pubkeys, c.m)
      [] c.fn = "transfer" ->
            transfer(c.token_program_id, c.source_pubkey, c.destination_pubkey,
                     c.authority_pubkey, c.signer_pubkeys, c.amount)
      [] c.fn = "approve" ->
            approve(c.token_program_id, c.source_pubkey, c.delegate_pubkey,
                    c.owner_pubkey, c.signer_pubkeys, c.amount)
      [] c.fn = "revoke" ->
            revoke(c.token_program_id, c.source_pubkey, c.owner_pubkey, c.signer_pubkeys)
      [] c.fn = "set_authority" ->
            set_authority(c.token_program_id, c.owned_pubkey, c.new_authority_pubkey,
                          c.authority_type, c.owner_pubkey, c.signer_pubkeys)
      [] c.fn = "mint_to" ->
            mint_to(c.token_program_id, c.mint_pubkey, c.account_pubkey,
                    c.owner_pubkey, c.signer_pubkeys, c.amount)
      [] c.fn = "burn" ->
            burn(c.token_program_id, c.account_pubkey, c.mint_pubkey,
                 c.authority_pubkey, c.signer_pubkeys, c.amount)
      [] c.fn = "close_account" ->
            close_account(c.token_program_id, c.account_pubkey, c.destination_pubkey,
                          c.owner_pubkey, c.signer_pubkeys)
      [] c.fn = "freeze_account" ->
            freeze_account(c.token_program_id, c.account_pubkey, c.mint_pubkey,
                           c.owner_pubkey, c.signer_pubkeys)
      [] c.fn = "thaw_account" ->
            thaw_account(c.token_program_id, c.account_pubkey, c.mint_pubkey,
                         c.owner_pubkey, c.signer_pubkeys)
      [] c.fn = "transfer_checked" ->
            transfer_checked(c.token_program_id, c.source_pubkey, c.mint_pubkey,
                             c.destination_pubkey, c.authority_pubkey, c.signer_pubkeys,
                             c.amount, c.decimals)
      [] c.fn = "approve_checked" ->
            approve_checked(c.token_program_id, c.source_pubkey, c.mint_pubkey,
                            c.delegate_pubkey, c.owner_pubkey, c.signer_pubkeys,
                            c.amount, c.decimals)
      [] c.fn = "mint_to_checked" ->
            mint_to_checked(c.token_program_id, c.mint_pubkey, c.account_pubkey,
                            c.owner_pubkey, c.signer_pubkeys, c.amount, c.decimals)
      [] c.fn = "burn_checked" ->
            burn_checked(c.token_program_id, c.account_pubkey, c.mint_pubkey,
                         c.authority_pubkey, c.signer_pubkeys, c.amount, c.decimals)

\* C12: the signer shape does not touch the fixed role references.  For
\* the same role identifiers, the references before the authority have the
\* same identifier, position, is_writable flag and is_signer = false
\* whatever trailing signers are supplied (none or k >= 1); only the
\* authority's is_signer flag and the trailing block differ.
C12_FixedRolesFrame ==
    AuthorityBuilt =>
        \A s \in SignerLists :
            LET other == Invoke([call EXCEPT !.signer_pubkeys = s])
                a == AuthorityIndex(call.fn)
            IN /\ other.ok
               /\ \A i \in 1..(a - 1) :
                     /\ other.val.accounts[i] = ret.val.accounts[i]
                     /\ ~ret.val.accounts[i].is_signer
               /\ other.val.accounts[a].pubkey = ret.val.accounts[a].pubkey
               /\ other.val.accounts[a].is_writable = ret.val.accounts[a].is_writable
               /\ other.val.program_id = ret.val.program_id
               /\ other.val.data = ret.val.data

\* witness of C12: approve_checked was built with two trailing signers; its
\* source is writable, its mint and delegate are read-only, none is a signer
C12_Witness ==
    /\ AuthorityBuilt
    /\ call.fn = "approve_checked"
    /\ Len(call.signer_pubkeys) = 2
    /\ ret.val.accounts[1] = AccountMeta_new(call.source_pubkey, FALSE)
    /\ ret.val.accounts[2] = AccountMeta_new_readonly(call.mint_pubkey, FALSE)
    /\ ret.val.accounts[3] = AccountMeta_new_readonly(call.delegate_pubkey, FALSE)

\* a reference to identifier key with the given writability
Refers(meta, key, writable) == meta.pubkey = key /\ meta.is_writable = writable

\* the references from position first on carry the identifiers of keys, in order
Trailing(accounts, first, keys) ==
    /\ Len(accounts) = first - 1 + Len(keys)
    /\ \A i \in 1..Len(keys) : accounts[first - 1 + i].pubkey = keys[i]

\* C13: the account ordering of the transfers.  transfer returns [source
\* (writable), destination (writable), authority (read-only)] and then the
\* trailing signers, 3 + k references; transfer_checked returns [source
\* (writable), mint (read-only), destination (writable), authority
\* (read-only)] and then the trailing signers, 4 + k references.
C13_TransferOrdering ==
    /\ (pc = "called" /\ call.fn = "transfer" /\ ret.ok) =>
          LET accounts == ret.val.accounts IN
          /\ Len(accounts) = 3 + Len(call.signer_pubkeys)
          /\ Refers(accounts[1], call.source_pubkey, TRUE)
          /\ Refers(accounts[2], call.destination_pubkey, TRUE)
          /\ Refers(accounts[3], call.authority_pubkey, FALSE)
          /\ Trailing(accounts, 4, call.signer_pubkeys)
    /\ (pc = "called" /\ call.fn = "transfer_checked" /\ ret.ok) =>
          LET accounts == ret.val.accounts IN
          /\ Len(accounts) = 4 + Len(call.signer_pubkeys)
          /\ Refers(accounts[1], call.source_pubkey, TRUE)
          /\ Refers(accounts[2], call.mint_pubkey, FALSE)
          /\ Refers(accounts[3], call.destination_pubkey, TRUE)
          /\ Refers(accounts[4], call.authority_pubkey, FALSE)
          /\ Trailing(accounts, 5, call.signer_pubkeys)

\* witness of C13: transfer_checked was built for a mint that differs from
\* the destination, with two trailing signers: six references
C13_Witness ==
    /\ pc = "called"
    /\ call.fn = "transfer_checked"
    /\ ret.ok
    /\ call.mint_pubkey # call.destination_pubkey
    /\ Len(call.signer_pubkeys) = 2
    /\ Len(ret.val.accounts) = 6

MultisigBuilt == pc = "called" /\ call.fn = "initialize_multisig" /\ ret.ok

\* C14: the account list of InitializeMultisig.  When initialize_multisig
\* succeeds with n signer identifiers the list is [multisig (writable),
\* rent sysvar (read-only)] followed by the n signers in the supplied
\* order, each read-only; it has 2 + n references and none is a signer.
C14_MultisigAccounts ==
    MultisigBuilt =>
        LET accounts == ret.val.accounts
            n == Len(call.signer_pubkeys)
        IN /\ Len(accounts) = 2 + n
           /\ Refers(accounts[1], call.multisig_pubkey, TRUE)
           /\ Refers(accounts[2], RentSysvarId, FALSE)
           /\ \A i \in 1..n : Refers(accounts[2 + i], call.signer_pubkeys[i], FALSE)
           /\ \A i \in 1..Len(accounts) : ~accounts[i].is_signer

\* witness of C14: a multisig of one signer was built, three references
C14_Witness ==
    /\ MultisigBuilt
    /\ Len(call.signer_pubkeys) = 1
    /\ Len(ret.val.accounts) = 3
    /\ ret.val.accounts[3].pubkey = call.signer_pubkeys[1]

InitBuilders == {"initialize_mint", "initialize_account", "initialize_account2"}

InitBuilt == pc = "called" /\ call.fn \in InitBuilders /\ ret.ok

\* the list holds exactly the given references, in order
RefersAll(accounts, keys, writable) ==
    /\ Len(accounts) = Len(keys)
    /\ \A i \in 1..Len(keys) : Refers(accounts[i], keys[i], writable[i])

\* C15: the account lists of the initialization builders.  initialize_mint
\* returns exactly [mint (writable), rent sysvar (read-only)];
\* initialize_account returns exactly [account (writable), mint, owner, rent
\* sysvar (all read-only)]; initialize_account2 returns exactly [account
\* (writable), mint, rent sysvar (read-only)] and carries the owner in the
\* payload, bytes 1..32 after tag 16, with no reference of its own.  No
\* reference of these lists is a signer.
C15_InitAccounts ==
    InitBuilt =>
        LET accounts == ret.val.accounts
            data == ret.val.data
        IN /\ call.fn = "initialize_mint" =>
                RefersAll(accounts, << call.mint_pubkey, RentSysvarId >>,
                          << TRUE, FALSE >>)
           /\ call.fn = "initialize_account" =>
                RefersAll(accounts, << call.account_pubkey, call.mint_pubkey,
                                       call.owner_pubkey, RentSysvarId >>,
                          << TRUE, FALSE, FALSE, FALSE >>)
           /\ call.fn = "initialize_account2" =>
                /\ RefersAll(accounts, << call.account_pubkey, call.mint_pubkey,
                                          RentSysvarId >>,
                             << TRUE, FALSE, FALSE >>)
                /\ Len(data) = 1 + PUBKEY_BYTES
                /\ data[1] = 16
                /\ SubSeq(data, 2, 1 + PUBKEY_BYTES) = call.owner_pubkey
                /\ call.owner_pubkey \notin {call.account_pubkey, call.mint_pubkey}
                     => \A i \in 1..Len(accounts) :
                            accounts[i].pubkey # call.owner_pubkey
           /\ \A i \in 1..Len(accounts) : ~accounts[i].is_signer

\* witness of C15: initialize_account2 built an envelope for an owner that
\* is neither the account nor the mint
C15_Witness ==
    /\ InitBuilt
    /\ call.fn = "initialize_account2"
    /\ call.owner_pubkey \notin {call.account_pubkey, call.mint_pubkey}
    /\ Len(ret.val.accounts) = 3
    /\ SubSeq(ret.val.data, 2, 1 + PUBKEY_BYTES) = call.owner_pubkey

\* the instruction value each builder hands to pack, from the scalar
\* arguments of the call
Operation(c) ==
    CASE c.fn = "initialize_mint" ->
            InitializeMint(c.decimals, c.mint_authority_pubkey,
                           COptionFrom(c.freeze_authority_pubkey))
      [] c.fn = "initialize_account" -> InitializeAccount
      [] c.fn = "initialize_account2" -> InitializeAccount2(c.owner_pubkey)
      [] c.fn = "initialize_multisig" -> InitializeMultisig(c.m)
      [] c.fn = "transfer" -> Transfer(c.amount)
      [] c.fn = "approve" -> Approve(c.amount)
      [] c.fn = "revoke" -> Revoke
      [] c.fn = "set_authority" ->
            SetAuthority(c.authority_type, COptionFrom(c.new_authority_pubkey))
      [] c.fn = "mint_to" -> MintTo(c.amount)
      [] c.fn = "burn" -> Burn(c.amount)
      [] c.fn = "close_account" -> CloseAccount
      [] c.fn = "freeze_account" -> FreezeAccount
      [] c.fn = "thaw_account" -> ThawAccount
      [] c.fn = "transfer_checked" -> TransferChecked(c.amount, c.decimals)
      [] c.fn = "approve_checked" -> ApproveChecked(c.amount, c.decimals)
      [] c.fn = "mint_to_checked" -> MintToChecked(c.amount, c.decimals)
      [] c.fn = "burn_checked" -> BurnChecked(c.amount, c.decimals)

\* the builders whose instruction is a declared variant of TokenInstruction
DeclaredBuilders ==
    {"initialize_mint", "initialize_account", "initialize_account2",
     "transfer", "approve", "mint_to", "burn"}

\* C16: envelope consistency.  For every builder call that succeeds the
\* envelope's program_id is the supplied program identifier, unpack of the
\* envelope's data returns Ok of the operation's instruction with exactly
\* the scalar arguments of the call, and the data is the same for every
\* list of trailing signers.
C16_EnvelopeConsistency ==
    (BuilderCalled /\ ret.ok) =>
        /\ ret.val.program_id = call.token_program_id
        /\ unpack(ret.val.data) = Ok(Operation(call))
        /\ call.fn \in AuthorityBuilders =>
             \A s \in SignerLists :
                Invoke([call EXCEPT !.signer_pubkeys = s]).val.data = ret.val.data

\* the part of C16 the code keeps: the builders of the seven declared variants
C16_DeclaredConsistent ==
    (BuilderCalled /\ ret.ok /\ call.fn \in DeclaredBuilders) =>
        /\ ret.val.program_id = call.token_program_id
        /\ unpack(ret.val.data) = Ok(Operation(call))

\* the defect behind C16: revoke succeeded and unpack rejects its payload
C16_Rejected ==
    /\ BuilderCalled
    /\ call.fn = "revoke"
    /\ ret.ok
    /\ unpack(ret.val.data) = Err(InvalidInstruction)

MultisigCalled ==
    /\ pc = "called"
    /\ call.fn = "initialize_multisig"
    /\ call.token_program_id = TokenProgramId

\* C17: the accepted multisig configurations.  With MIN_SIGNERS =
\* MAX_SIGNERS = 1 and a valid program identifier, initialize_multisig
\* succeeds if and only if m = 1 and exactly one signer is supplied; every
\* other (m, n) is rejected with MissingRequiredSignature, so no envelope
\* carries more than one multisig signer.
C17_AcceptedConfigurations ==
    MultisigCalled =>
        /\ ret.ok <=> (call.m = 1 /\ Len(call.signer_pubkeys) = 1)
        /\ ~ret.ok => ret = Err(MissingRequiredSignature)
        /\ ret.ok => Len(ret.val.accounts) - 2 <= 1

\* witness of C17: m = 0 with one signer, below the bound, was rejected
C17_Witness ==
    /\ MultisigCalled
    /\ call.m = 0
    /\ Len(call.signer_pubkeys) = 1
    /\ ret = Err(MissingRequiredSignature)

\* the one accepted configuration of C17 was accepted
C17_Accepted ==
    /\ MultisigCalled
    /\ call.m = 1
    /\ Len(call.signer_pubkeys) = 1
    /\ ret.ok

\* C18: the builders that take trailing signers apply no bound on their
\* number.  With a valid program identifier they succeed for every number
\* of signers, more than MAX_SIGNERS included, with one reference per
\* signer; MissingRequiredSignature comes from initialize_multisig only.
C18_NoSignerBound ==
    /\ (/\ pc = "called"
        /\ call.fn \in AuthorityBuilders
        /\ call.token_program_id = TokenProgramId)
          => /\ ret.ok
             /\ Len(ret.val.accounts) =
                    AuthorityIndex(call.fn) + Len(call.signer_pubkeys)
    /\ (BuilderCalled /\ ret = Err(MissingRequiredSignature))
          => call.fn = "initialize_multisig"

\* witness of C18: mint_to succeeded with more signers than MAX_SIGNERS
C18_Witness ==
    /\ pc = "called"
    /\ call.fn = "mint_to"
    /\ call.token_program_id = TokenProgramId
    /\ Len(call.signer_pubkeys) > MAX_SIGNERS
    /\ ret.ok
    /\ Len(ret.val.accounts) = 3 + Len(call.signer_pubkeys)

====
